---- MODULE Spec2Model ----
(***************************************************************************)
(* Model of the raw struct-of-arrays storage generated by                  *)
(* soapy-derive/src/fields.rs (fields_struct): the layout computation      *)
(* layout_and_offsets, the handle constructor with_offsets, and the        *)
(* RawSoa operations alloc, realloc_grow, realloc_shrink, dealloc, copy,   *)
(* set and get, over a byte-addressed block owned by the global allocator. *)
(*                                                                         *)
(* Sequences are 1-based: field f of the model is field f-1 of the code,   *)
(* and offsets[k] of the model is offsets[k-1] of the code.                *)
(***************************************************************************)
EXTENDS Integers, Naturals, Sequences, FiniteSets, TLC

(* ------------------------------ bounds --------------------------------- *)

\* Stand-in for isize::MAX, scaled down so that overflow is reachable.
IsizeMax == 63

\* Longest field list drawn for the layout computation.
MaxFields == 3

\* Largest capacity drawn for the layout computation.
MaxCapL == 8

\* Largest capacity the storage is allocated, grown or shrunk to.
MaxCap == 3

\* Largest length the owner of a zero-field storage counts to.
MaxLenZ == 5

(* ------------------------- field descriptors --------------------------- *)

\* size_of / align_of of a field type (#ty_all): the size is a multiple of
\* the alignment, the alignment a power of two.
Desc(s, a) == [size |-> s, align |-> a]

Descs == { Desc(0, 1), Desc(1, 1), Desc(2, 2), Desc(4, 4), Desc(8, 8), Desc(3, 1) }

RECURSIVE FieldListsOfLen(_)
FieldListsOfLen(n) ==
    IF n = 0 THEN { << >> }
    ELSE { Append(fl, d) : fl \in FieldListsOfLen(n - 1), d \in Descs }

\* Non-empty field lists (the zero-field record is dispatched to zst_struct).
FieldLists == UNION { FieldListsOfLen(n) : n \in 1..MaxFields }

Max(a, b) == IF a >= b THEN a ELSE b

(* ------------------------- std::alloc::Layout -------------------------- *)

LayoutErr == [ok |-> FALSE, size |-> 0, align |-> 1]

\* Layout::from_size_align's size limit for an alignment.
max_size_for_align(align) == IsizeMax - (align - 1)

\* Layout::array without the size check: the product wraps at the word size.
Layout_array_unchecked(d, cap) ==
    [ok |-> TRUE, size |-> (d.size * cap) % (2 * (IsizeMax + 1)), align |-> d.align]

\* Layout::array::<T>(cap)
Layout_array(d, cap) ==
    IF d.size # 0 /\ cap > max_size_for_align(d.align) \div d.size
    THEN LayoutErr
    ELSE [ok |-> TRUE, size |-> d.size * cap, align |-> d.align]

\* Padding taken as the remainder of size, not as what is missing to align.
padding_needed_for_remainder(size, align) == size % align

\* Padding that adds a whole alignment to an already aligned size.
padding_needed_for_full(size, align) == align - (size % align)

\* Layout::padding_needed_for: bytes to add to size to reach a multiple of align.
padding_needed_for(size, align) == ((size + align - 1) \div align) * align - size

\* extend whose new size leaves out the padding in front of the next array.
Layout_extend_short(layout, next) ==
    LET new_align == Max(layout.align, next.align)
        offset    == layout.size + padding_needed_for(layout.size, next.align)
        new_size  == layout.size + next.size
    IN  IF new_size > max_size_for_align(new_align)
        THEN [ok |-> FALSE, size |-> 0, align |-> 1, offset |-> 0]
        ELSE [ok |-> TRUE, size |-> new_size, align |-> new_align, offset |-> offset]

\* extend that places the next array without padding.
Layout_extend_unpadded(layout, next) ==
    LET new_align == Max(layout.align, next.align)
        new_size  == layout.size + next.size
    IN  IF new_size > max_size_for_align(new_align)
        THEN [ok |-> FALSE, size |-> 0, align |-> 1, offset |-> 0]
        ELSE [ok |-> TRUE, size |-> new_size, align |-> new_align, offset |-> layout.size]

\* extend followed by pad_to_align on the running layout.
Layout_extend_padded(layout, next) ==
    LET new_align == Max(layout.align, next.align)
        offset    == layout.size + padding_needed_for(layout.size, next.align)
        new_size  == offset + next.size
        padded    == new_size + padding_needed_for(new_size, new_align)
    IN  IF padded > max_size_for_align(new_align)
        THEN [ok |-> FALSE, size |-> 0, align |-> 1, offset |-> 0]
        ELSE [ok |-> TRUE, size |-> padded, align |-> new_align, offset |-> offset]

\* layout.extend(next): (layout, offset); no trailing padding is added.
Layout_extend(layout, next) ==
    LET new_align == Max(layout.align, next.align)
        offset    == layout.size + padding_needed_for(layout.size, next.align)
        new_size  == offset + next.size
    IN  IF new_size > max_size_for_align(new_align)
        THEN [ok |-> FALSE, size |-> 0, align |-> 1, offset |-> 0]
        ELSE [ok |-> TRUE, size |-> new_size, align |-> new_align, offset |-> offset]

(* -------------------------- layout_and_offsets ------------------------- *)

PlanErr(n) == [ok |-> FALSE, size |-> 0, align |-> 1, offsets |-> [k \in 1..n |-> 0]]

\* The loop over #ty_tail: field f (f >= 2) extends the running layout and
\* stores its offset in slot f-1 of the array; an Err unwraps to a panic.
RECURSIVE extend_tail(_, _, _, _, _)
extend_tail(fields, cap, f, layout, offsets) ==
    IF f > Len(fields) THEN
        [ok |-> TRUE, size |-> layout.size, align |-> layout.align, offsets |-> offsets]
    ELSE
        LET array == Layout_array(fields[f], cap) IN
        IF ~array.ok THEN PlanErr(Len(fields))
        ELSE
            LET ext == Layout_extend(layout, array) IN
            IF ~ext.ok THEN PlanErr(Len(fields))
            ELSE extend_tail(fields, cap, f + 1,
                             [size |-> ext.size, align |-> ext.align],
                             [offsets EXCEPT ![f - 1] = ext.offset])

\* layout_and_offsets(cap) -> (Layout, [usize; fields_len]); ok = FALSE is the
\* panic of an unwrap.
layout_and_offsets(fields, cap) ==
    LET layout == Layout_array(fields[1], cap) IN
    IF ~layout.ok THEN PlanErr(Len(fields))
    ELSE extend_tail(fields, cap, 2,
                     [size |-> layout.size, align |-> layout.align],
                     [k \in 1..Len(fields) |-> 0])

\* with_offsets that takes the offsets of the tail fields as addresses.
with_offsets_absolute(ptr, offsets) ==
    [f \in 1..Len(offsets) |-> IF f = 1 THEN ptr ELSE offsets[f - 1]]

\* with_offsets that reads slot f of the array for tail field f.
with_offsets_unshifted(ptr, offsets) ==
    [f \in 1..Len(offsets) |-> IF f = 1 THEN ptr ELSE ptr + offsets[f]]

\* with_offsets(ptr, offsets): the head field at ptr, tail field f at
\* ptr + offsets[f-1].
with_offsets(ptr, offsets) ==
    [f \in 1..Len(offsets) |-> IF f = 1 THEN ptr ELSE ptr + offsets[f - 1]]

\* Byte offset of every field inside the block, as with_offsets applies the
\* array of layout_and_offsets.
field_offsets(plan) == with_offsets(0, plan.offsets)

(* ------------------------------- state --------------------------------- *)

VARIABLES
    fields,     \* the record type: its field descriptors in declaration order
    planCap,    \* capacity handed to layout_and_offsets
    plan,       \* result of layout_and_offsets(planCap)
    pc,         \* "input" before the computation, "planned" after, "storage"
                \* while the storage operations run
    raw,        \* the RawSoa handle (self): one base address per field
    cap,        \* the capacity the owner of the handle tracks and passes in
    len,        \* the length the owner tracks: elements 0..len-1 are initialized
    heap,       \* the allocator's block: live, addr, size, align, bytes
    call,       \* the allocator call made by the last operation
    moves,      \* the ptr::copy calls made by the last operation, in order
    status,     \* "ok", "panic" (unwrap or assert_ne failed), "ub"
    lastOp,     \* the last operation and its arguments
    got,        \* the record returned by the last get
    shadow,     \* reference: one independent array of field values per field
    releases,   \* per slot: how often the stored field values were released
    moveSize    \* size of the block while the ptr::copy calls of moves ran

vars == << fields, planCap, plan, pc, raw, cap, len, heap, call, moves, status,
           lastOp, got, shadow, releases, moveSize >>

storageVars == << raw, cap, len, heap, call, moves, status, lastOp, got, shadow,
                  releases, moveSize >>

(* ------------------------------ memory --------------------------------- *)

Null == 0

\* Addresses the allocator hands out: aligned for every field type, apart
\* from each other by more than the largest block.
Addrs == { 256, 512 }

\* An uninitialized byte.
Uninit == 0

NoBlock == [live |-> FALSE, addr |-> Null, size |-> 0, align |-> 1, bytes |-> << >>]

NoCall == [op |-> "none", ptr |-> Null, size |-> 0, align |-> 1, new_size |-> 0,
           ret |-> Null]

NoOp == [op |-> "none", a |-> 0, b |-> 0, c |-> 0]

\* The n bytes at address p lie inside the live block (n = 0 touches nothing).
valid(h, p, n) == n = 0 \/ (h.live /\ h.addr <= p /\ p + n <= h.addr + h.size)

\* The n bytes at address p.
load(h, p, n) == [k \in 1..n |-> h.bytes[p - h.addr + k]]

\* Store the byte sequence bs at address p.
store(h, p, bs) ==
    [h EXCEPT !.bytes = [a \in 1..h.size |->
        IF h.addr + a - 1 >= p /\ h.addr + a - 1 < p + Len(bs)
        THEN bs[h.addr + a - p] ELSE h.bytes[a]]]

\* A copy that moves one byte after the other from the lowest address up.
RECURSIVE copy_ascending(_, _, _, _, _)
copy_ascending(h, src, dst, n, k) ==
    IF k >= n THEN h
    ELSE copy_ascending(store(h, dst + k, load(h, src + k, 1)), src, dst, n, k + 1)

ptr_copy_forward(h, src, dst, n) == copy_ascending(h, src, dst, n, 0)

\* std::ptr::copy of n bytes (memmove): the destination receives the bytes
\* the source held before the call, also when the two ranges overlap.
ptr_copy(h, src, dst, n) ==
    [h EXCEPT !.bytes = [a \in 1..h.size |->
        IF h.addr + a - 1 >= dst /\ h.addr + a - 1 < dst + n
        THEN h.bytes[(h.addr + a - 1) - dst + src - h.addr + 1]
        ELSE h.bytes[a]]]

\* std::alloc::alloc(layout) returning ptr: a fresh uninitialized block.
alloc_block(ptr, size, align) ==
    [live |-> TRUE, addr |-> ptr, size |-> size, align |-> align,
     bytes |-> [a \in 1..size |-> Uninit]]

\* std::alloc::realloc(ptr, layout, new_size) returning ptr2: the block keeps
\* its alignment and its first min(old, new) bytes, at a possibly new address.
realloc_block(h, ptr2, new_size) ==
    [live |-> TRUE, addr |-> ptr2, size |-> new_size, align |-> h.align,
     bytes |-> [a \in 1..new_size |-> IF a <= h.size THEN h.bytes[a] ELSE Uninit]]

(* ------------------------------ records -------------------------------- *)

\* Byte k of field f of record value v (never Uninit).
Byte(v, f, k) == v * 1000 + f * 100 + k

\* A record value #ident: one value of size_of bytes per field.
Record(v) == [f \in 1..Len(fields) |-> [k \in 1..fields[f].size |-> Byte(v, f, k)]]

\* The record values handed to set.
Values == { 1, 2 }

Records == { Record(v) : v \in Values }

\* A field value no byte of which is uninitialized.
Written(bs) == \A k \in 1..Len(bs) : bs[k] # Uninit

UninitValue(f) == [k \in 1..fields[f].size |-> Uninit]

\* Record types the storage is exercised with: every one has a non-zero size
\* (a zero-sized record never allocates).
StorageFieldLists ==
    { << Desc(1, 1), Desc(1, 1), Desc(1, 1) >>,
      << Desc(1, 1), Desc(2, 2), Desc(1, 1) >>,
      << Desc(2, 2), Desc(0, 1), Desc(4, 4) >>,
      << Desc(24, 8) >> }

(* --------------------------- RawSoa helpers ---------------------------- *)

\* dangling(): NonNull::dangling() of every field type, its alignment.
dangling == [f \in 1..Len(fields) |-> fields[f].align]

\* The last field's base, where the head field's base is meant.
as_ptr_last(r) == r[Len(r)]

\* as_ptr(self): the head field's base as a byte pointer.
as_ptr(r) == r[1]

\* Address of element index of field f through the handle r (ptr.add(index)).
elem(r, f, index) == r[f] + index * fields[f].size

\* The last field first, where the declaration order is meant.
ident_all_reversed == [k \in 1..Len(fields) |-> Len(fields) + 1 - k]

\* Fields in declaration order (#ident_all).
ident_all == [k \in 1..Len(fields) |-> k]

\* The first field first, where the reverse order is meant.
ident_rev_declared == [k \in 1..Len(fields) |-> k]

\* Fields in reverse declaration order (#ident_rev).
ident_rev == [k \in 1..Len(fields) |-> Len(fields) + 1 - k]

\* A relocation that leaves the last of the length elements behind.
relocation_short(order, from, to, length) ==
    [k \in 1..Len(order) |->
        [field |-> order[k], src |-> from[order[k]], dst |-> to[order[k]],
         n |-> Max(length - 1, 0) * fields[order[k]].size]]

\* The ptr::copy calls of a relocation of the first length elements of every
\* field from the handle from to the handle to, in the given field order.
relocation(order, from, to, length) ==
    [k \in 1..Len(order) |->
        [field |-> order[k], src |-> from[order[k]], dst |-> to[order[k]],
         n |-> length * fields[order[k]].size]]

\* The block after the ptr::copy calls ms, made one after the other.
RECURSIVE apply_moves(_, _, _)
apply_moves(h, ms, k) ==
    IF k > Len(ms) THEN h
    ELSE apply_moves(ptr_copy(h, ms[k].src, ms[k].dst, ms[k].n), ms, k + 1)

\* Every ptr::copy of ms stays inside the block.
moves_valid(h, ms) ==
    \A k \in 1..Len(ms) : valid(h, ms[k].src, ms[k].n) /\ valid(h, ms[k].dst, ms[k].n)

\* The release counts after a capacity change that keeps the first length
\* elements.
kept(rel, new_capacity, length) ==
    [j \in 1..new_capacity |-> IF j <= length THEN rel[j] ELSE 0]

\* The owner tears down its n elements, releasing the fields of each once,
\* before it deallocates.
owner_release(rel, n) == [j \in 1..n |-> rel[j] + 1]

\* The reference arrays after a capacity change that keeps the first length
\* elements of every field.
resized(sh, new_capacity, length) ==
    [f \in 1..Len(fields) |->
        [j \in 1..new_capacity |-> IF j <= length THEN sh[f][j] ELSE UninitValue(f)]]

(* ---------------------- layout computation alone ----------------------- *)

InitLayout ==
    /\ fields \in FieldLists
    /\ planCap \in 0..MaxCapL
    /\ plan = PlanErr(Len(fields))
    /\ pc = "input"
    /\ raw = dangling
    /\ cap = 0
    /\ len = 0
    /\ heap = NoBlock
    /\ call = NoCall
    /\ moves = << >>
    /\ status = "ok"
    /\ lastOp = NoOp
    /\ got = << >>
    /\ shadow = [f \in 1..Len(fields) |-> << >>]
    /\ releases = << >>
    /\ moveSize = 0

Plan ==
    /\ pc = "input"
    /\ plan' = layout_and_offsets(fields, planCap)
    /\ pc' = "planned"
    /\ UNCHANGED << fields, planCap >>
    /\ UNCHANGED storageVars

NextLayout == Plan

SpecLayout == InitLayout /\ [][NextLayout]_vars

(* --------------------------- RawSoa operations ------------------------- *)

\* An assertion that lets every pointer pass.
assert_ne_skipped(ptr, null) == TRUE

\* assert_ne!(ptr, null): FALSE is the panic of the assertion.
assert_ne(ptr, null) == ptr # null

\* The block the allocator holds is the one at ptr with this layout (the
\* contract of std::alloc::realloc and std::alloc::dealloc).
owns(h, ptr, size, align) ==
    h.live /\ h.addr = ptr /\ h.size = size /\ h.align = align

Op(name, a, b, c) == [op |-> name, a |-> a, b |-> b, c |-> c]

Init ==
    /\ fields \in StorageFieldLists
    /\ planCap = 0
    /\ plan = PlanErr(Len(fields))
    /\ pc = "storage"
    /\ raw = dangling
    /\ cap = 0
    /\ len = 0
    /\ heap = NoBlock
    /\ call = NoCall
    /\ moves = << >>
    /\ status = "ok"
    /\ lastOp = NoOp
    /\ got = << >>
    /\ shadow = [f \in 1..Len(fields) |-> << >>]
    /\ releases = << >>
    /\ moveSize = 0

\* alloc(capacity), called by the owner of an empty storage.
alloc(capacity) ==
    /\ pc = "storage" /\ status = "ok"
    /\ cap = 0 /\ capacity >= 1
    /\ lastOp' = Op("alloc", capacity, 0, 0)
    /\ moves' = << >> /\ moveSize' = 0
    /\ got' = << >>
    /\ LET new == layout_and_offsets(fields, capacity) IN
       IF ~new.ok THEN
           /\ status' = "panic"
           /\ call' = NoCall
           /\ UNCHANGED << raw, cap, len, heap, shadow, releases >>
       ELSE
           \E ptr \in Addrs \cup { Null } :
               /\ call' = [op |-> "alloc", ptr |-> Null, size |-> new.size,
                           align |-> new.align, new_size |-> 0, ret |-> ptr]
               /\ IF ~assert_ne(ptr, Null) THEN
                      /\ status' = "panic"
                      /\ UNCHANGED << raw, cap, len, heap, shadow, releases >>
                  ELSE
                      /\ status' = "ok"
                      /\ heap' = alloc_block(ptr, new.size, new.align)
                      /\ raw' = with_offsets(ptr, new.offsets)
                      /\ cap' = capacity
                      /\ len' = 0
                      /\ shadow' = [f \in 1..Len(fields) |->
                                       [j \in 1..capacity |-> UninitValue(f)]]
                      /\ releases' = [j \in 1..capacity |-> 0]
    /\ UNCHANGED << fields, planCap, plan, pc >>

\* realloc_grow(old_capacity, new_capacity, length)
realloc_grow(old_capacity, new_capacity, length) ==
    /\ pc = "storage" /\ status = "ok"
    /\ cap >= 1 /\ old_capacity = cap
    /\ new_capacity > old_capacity /\ length <= old_capacity
    /\ lastOp' = Op("grow", old_capacity, new_capacity, length)
    /\ got' = << >>
    /\ LET new_plan == layout_and_offsets(fields, new_capacity)
           old_plan == layout_and_offsets(fields, old_capacity)
           ptr      == as_ptr(raw)
       IN
       IF ~new_plan.ok \/ ~old_plan.ok THEN
           /\ status' = "panic"
           /\ call' = NoCall
           /\ moves' = << >> /\ moveSize' = 0
           /\ UNCHANGED << raw, cap, len, heap, shadow, releases >>
       ELSE IF ~owns(heap, ptr, old_plan.size, old_plan.align) THEN
           /\ status' = "ub"
           /\ call' = [op |-> "realloc", ptr |-> ptr, size |-> old_plan.size,
                       align |-> old_plan.align, new_size |-> new_plan.size,
                       ret |-> Null]
           /\ moves' = << >> /\ moveSize' = 0
           /\ UNCHANGED << raw, cap, len, heap, shadow, releases >>
       ELSE
           \E ret \in Addrs \cup { Null } :
               /\ call' = [op |-> "realloc", ptr |-> ptr, size |-> old_plan.size,
                           align |-> old_plan.align, new_size |-> new_plan.size,
                           ret |-> ret]
               /\ IF ~assert_ne(ret, Null) THEN
                      /\ status' = "panic"
                      /\ moves' = << >> /\ moveSize' = 0
                      /\ UNCHANGED << raw, cap, len, heap, shadow, releases >>
                  ELSE
                      LET grown == realloc_block(heap, ret, new_plan.size)
                          old   == with_offsets(ret, old_plan.offsets)
                          new   == with_offsets(ret, new_plan.offsets)
                          ms    == relocation(ident_rev, old, new, length)
                      IN  /\ moves' = ms /\ moveSize' = grown.size
                          /\ IF moves_valid(grown, ms) THEN
                                 /\ status' = "ok"
                                 /\ heap' = apply_moves(grown, ms, 1)
                                 /\ raw' = new
                                 /\ cap' = new_capacity
                                 /\ len' = length
                                 /\ shadow' = resized(shadow, new_capacity, length)
                                 /\ releases' = kept(releases, new_capacity, length)
                             ELSE
                                 /\ status' = "ub"
                                 /\ heap' = grown
                                 /\ UNCHANGED << raw, cap, len, shadow, releases >>
    /\ UNCHANGED << fields, planCap, plan, pc >>

\* A shrink in the order of realloc_grow: the block is truncated first and
\* the fields are moved afterwards.
realloc_shrink_truncate_first(old_capacity, new_capacity, length) ==
    /\ pc = "storage" /\ status = "ok"
    /\ cap >= 1 /\ old_capacity = cap
    /\ 1 <= new_capacity /\ new_capacity < old_capacity /\ length <= new_capacity
    /\ lastOp' = Op("shrink", old_capacity, new_capacity, length)
    /\ got' = << >>
    /\ LET old_plan == layout_and_offsets(fields, old_capacity)
           new_plan == layout_and_offsets(fields, new_capacity)
           ptr      == as_ptr(raw)
       IN
       IF ~old_plan.ok \/ ~new_plan.ok THEN
           /\ status' = "panic"
           /\ call' = NoCall
           /\ moves' = << >> /\ moveSize' = 0
           /\ UNCHANGED << raw, cap, len, heap, shadow, releases >>
       ELSE
           \E ret \in Addrs \cup { Null } :
               /\ call' = [op |-> "realloc", ptr |-> ptr, size |-> old_plan.size,
                           align |-> old_plan.align, new_size |-> new_plan.size,
                           ret |-> ret]
               /\ IF ~assert_ne(ret, Null) THEN
                      /\ status' = "panic"
                      /\ moves' = << >> /\ moveSize' = 0
                      /\ UNCHANGED << raw, cap, len, heap, shadow, releases >>
                  ELSE
                      LET shrunk == realloc_block(heap, ret, new_plan.size)
                          old    == with_offsets(ret, old_plan.offsets)
                          new    == with_offsets(ret, new_plan.offsets)
                          ms     == relocation(ident_all, old, new, length)
                      IN  /\ moves' = ms /\ moveSize' = shrunk.size
                          /\ IF moves_valid(shrunk, ms) THEN
                                 /\ status' = "ok"
                                 /\ heap' = apply_moves(shrunk, ms, 1)
                                 /\ raw' = new
                                 /\ cap' = new_capacity
                                 /\ len' = length
                                 /\ shadow' = resized(shadow, new_capacity, length)
                                 /\ releases' = kept(releases, new_capacity, length)
                             ELSE
                                 /\ status' = "ub"
                                 /\ heap' = shrunk
                                 /\ UNCHANGED << raw, cap, len, shadow, releases >>
    /\ UNCHANGED << fields, planCap, plan, pc >>

\* realloc_shrink(old_capacity, new_capacity, length); realloc to size 0 is
\* not allowed, so the owner shrinks to a capacity of at least 1.
realloc_shrink(old_capacity, new_capacity, length) ==
    /\ pc = "storage" /\ status = "ok"
    /\ cap >= 1 /\ old_capacity = cap
    /\ 1 <= new_capacity /\ new_capacity < old_capacity /\ length <= new_capacity
    /\ lastOp' = Op("shrink", old_capacity, new_capacity, length)
    /\ got' = << >>
    /\ LET old_plan == layout_and_offsets(fields, old_capacity)
           new_plan == layout_and_offsets(fields, new_capacity)
           ptr      == as_ptr(raw)
           dst      == with_offsets(ptr, new_plan.offsets)
           ms       == relocation(ident_all, raw, dst, length)
       IN
       IF ~old_plan.ok \/ ~new_plan.ok THEN
           /\ status' = "panic"
           /\ call' = NoCall
           /\ moves' = << >> /\ moveSize' = 0
           /\ UNCHANGED << raw, cap, len, heap, shadow, releases >>
       ELSE IF ~moves_valid(heap, ms) THEN
           /\ status' = "ub"
           /\ call' = NoCall
           /\ moves' = ms /\ moveSize' = heap.size
           /\ UNCHANGED << raw, cap, len, heap, shadow, releases >>
       ELSE IF ~owns(heap, ptr, old_plan.size, old_plan.align) THEN
           /\ status' = "ub"
           /\ call' = [op |-> "realloc", ptr |-> ptr, size |-> old_plan.size,
                       align |-> old_plan.align, new_size |-> new_plan.size,
                       ret |-> Null]
           /\ moves' = ms /\ moveSize' = heap.size
           /\ heap' = apply_moves(heap, ms, 1)
           /\ UNCHANGED << raw, cap, len, shadow, releases >>
       ELSE
           \E ret \in Addrs \cup { Null } :
               /\ call' = [op |-> "realloc", ptr |-> ptr, size |-> old_plan.size,
                           align |-> old_plan.align, new_size |-> new_plan.size,
                           ret |-> ret]
               /\ moves' = ms /\ moveSize' = heap.size
               /\ IF ~assert_ne(ret, Null) THEN
                      /\ status' = "panic"
                      /\ heap' = apply_moves(heap, ms, 1)
                      /\ UNCHANGED << raw, cap, len, shadow, releases >>
                  ELSE
                      /\ status' = "ok"
                      /\ heap' = realloc_block(apply_moves(heap, ms, 1), ret,
                                               new_plan.size)
                      /\ raw' = with_offsets(ret, new_plan.offsets)
                      /\ cap' = new_capacity
                      /\ len' = length
                      /\ shadow' = resized(shadow, new_capacity, length)
                      /\ releases' = kept(releases, new_capacity, length)
    /\ UNCHANGED << fields, planCap, plan, pc >>

\* A dealloc that releases the block with the layout of the length, not of
\* the capacity.
dealloc_length_layout(old_capacity) ==
    /\ pc = "storage" /\ status = "ok"
    /\ old_capacity = cap
    /\ lastOp' = Op("dealloc", old_capacity, 0, 0)
    /\ got' = << >>
    /\ moves' = << >> /\ moveSize' = 0
    /\ LET layout == layout_and_offsets(fields, len) IN
       IF ~layout.ok THEN
           /\ status' = "panic"
           /\ call' = NoCall
           /\ UNCHANGED << raw, cap, len, heap, shadow, releases >>
       ELSE
           /\ call' = [op |-> "dealloc", ptr |-> as_ptr(raw), size |-> layout.size,
                       align |-> layout.align, new_size |-> 0, ret |-> Null]
           /\ IF owns(heap, as_ptr(raw), layout.size, layout.align)
              THEN heap' = NoBlock /\ status' = "ok"
              ELSE UNCHANGED heap /\ status' \in { "ok", "ub" }
           /\ raw' = dangling
           /\ cap' = 0
           /\ len' = 0
           /\ shadow' = [f \in 1..Len(fields) |-> << >>]
           /\ releases' = owner_release(releases, len)
    /\ UNCHANGED << fields, planCap, plan, pc >>

\* A dealloc that returns at once for capacity 0.
dealloc_guarded(old_capacity) ==
    /\ pc = "storage" /\ status = "ok"
    /\ old_capacity = cap
    /\ lastOp' = Op("dealloc", old_capacity, 0, 0)
    /\ got' = << >>
    /\ moves' = << >> /\ moveSize' = 0
    /\ LET layout == layout_and_offsets(fields, old_capacity) IN
       IF old_capacity = 0 THEN
           /\ status' = "ok"
           /\ call' = NoCall
           /\ UNCHANGED << raw, cap, len, heap, shadow, releases >>
       ELSE
           /\ call' = [op |-> "dealloc", ptr |-> as_ptr(raw), size |-> layout.size,
                       align |-> layout.align, new_size |-> 0, ret |-> Null]
           /\ heap' = NoBlock
           /\ status' = "ok"
           /\ raw' = dangling
           /\ cap' = 0
           /\ len' = 0
           /\ shadow' = [f \in 1..Len(fields) |-> << >>]
           /\ releases' = owner_release(releases, len)
    /\ UNCHANGED << fields, planCap, plan, pc >>

\* dealloc(old_capacity): the layout of old_capacity and the head base go to
\* std::alloc::dealloc whatever the capacity; releasing an address the
\* allocator does not hold is undefined.  The owner then is empty again.
dealloc(old_capacity) ==
    /\ pc = "storage" /\ status = "ok"
    /\ old_capacity = cap
    /\ lastOp' = Op("dealloc", old_capacity, 0, 0)
    /\ got' = << >>
    /\ moves' = << >> /\ moveSize' = 0
    /\ LET layout == layout_and_offsets(fields, old_capacity) IN
       IF ~layout.ok THEN
           /\ status' = "panic"
           /\ call' = NoCall
           /\ UNCHANGED << raw, cap, len, heap, shadow, releases >>
       ELSE
           /\ call' = [op |-> "dealloc", ptr |-> as_ptr(raw), size |-> layout.size,
                       align |-> layout.align, new_size |-> 0, ret |-> Null]
           /\ IF owns(heap, as_ptr(raw), layout.size, layout.align)
              THEN heap' = NoBlock /\ status' = "ok"
              ELSE UNCHANGED heap /\ status' \in { "ok", "ub" }
           /\ raw' = dangling
           /\ cap' = 0
           /\ len' = 0
           /\ shadow' = [f \in 1..Len(fields) |-> << >>]
           /\ releases' = owner_release(releases, len)
    /\ UNCHANGED << fields, planCap, plan, pc >>

\* copy(src, dst, count): one ptr::copy per field, in declaration order.
\* The owner moves initialized elements, inside the capacity, leaving no gap.
copy(src, dst, count) ==
    /\ pc = "storage" /\ status = "ok"
    /\ cap >= 1 /\ src + count <= len /\ dst <= len /\ dst + count <= cap
    /\ len' = Max(len, dst + count)
    /\ lastOp' = Op("copy", src, dst, count)
    /\ got' = << >>
    /\ call' = NoCall
    /\ LET ms == [f \in 1..Len(fields) |->
                    [field |-> f, src |-> elem(raw, f, src), dst |-> elem(raw, f, dst),
                     n |-> count * fields[f].size]]
       IN  /\ moves' = ms /\ moveSize' = heap.size
           /\ IF moves_valid(heap, ms) THEN
                  /\ status' = "ok"
                  /\ heap' = apply_moves(heap, ms, 1)
                  /\ shadow' = [f \in 1..Len(fields) |->
                        [j \in 1..cap |->
                            IF dst < j /\ j <= dst + count
                            THEN shadow[f][j - dst + src] ELSE shadow[f][j]]]
                  /\ releases' = [j \in 1..cap |->
                        IF dst < j /\ j <= dst + count
                        THEN releases[j - dst + src] ELSE releases[j]]
              ELSE
                  /\ status' = "ub"
                  /\ UNCHANGED << heap, shadow, releases >>
    /\ UNCHANGED << fields, planCap, plan, pc, raw, cap >>

\* A write that puts every field value into the head field's array.
RECURSIVE write_fields_head(_, _, _, _)
write_fields_head(h, index, element, f) ==
    IF f > Len(fields) THEN h
    ELSE write_fields_head(store(h, elem(raw, 1, index), element[f]), index, element, f + 1)

\* The block after writing field values f..N of element at index.
RECURSIVE write_fields(_, _, _, _)
write_fields(h, index, element, f) ==
    IF f > Len(fields) THEN h
    ELSE write_fields(store(h, elem(raw, f, index), element[f]), index, element, f + 1)

\* set(index, element): every field value is written to its own array.  The
\* owner overwrites an initialized slot or appends at len.
set(index, element) ==
    /\ pc = "storage" /\ status = "ok"
    /\ index < cap /\ index <= len
    /\ len' = Max(len, index + 1)
    /\ lastOp' = Op("set", index, CHOOSE v \in Values : Record(v) = element, 0)
    /\ got' = << >>
    /\ call' = NoCall
    /\ moves' = << >> /\ moveSize' = 0
    /\ IF \A f \in 1..Len(fields) : valid(heap, elem(raw, f, index), fields[f].size) THEN
           /\ status' = "ok"
           /\ heap' = write_fields(heap, index, element, 1)
           /\ shadow' = [f \in 1..Len(fields) |->
                            [shadow[f] EXCEPT ![index + 1] = element[f]]]
           /\ releases' = [releases EXCEPT ![index + 1] = 0]
       ELSE
           /\ status' = "ub"
           /\ UNCHANGED << heap, shadow, releases >>
    /\ UNCHANGED << fields, planCap, plan, pc, raw, cap >>

\* get(index): the record is read field by field; the owner reads only
\* slots it has initialized.
get(index) ==
    /\ pc = "storage" /\ status = "ok"
    /\ index < len
    /\ lastOp' = Op("get", index, 0, 0)
    /\ call' = NoCall
    /\ moves' = << >> /\ moveSize' = 0
    /\ IF \A f \in 1..Len(fields) : valid(heap, elem(raw, f, index), fields[f].size) THEN
           /\ status' = "ok"
           /\ got' = [f \in 1..Len(fields) |->
                         load(heap, elem(raw, f, index), fields[f].size)]
       ELSE
           /\ status' = "ub"
           /\ got' = << >>
    /\ UNCHANGED << fields, planCap, plan, pc, raw, cap, len, heap, shadow, releases >>

\* A local record that owns its fields: they are released when it goes out of
\* scope.
owned_local(t) == [value |-> t, drops |-> TRUE]

\* ManuallyDrop::new(t): the local record is discarded without running the
\* destructors of its fields.
ManuallyDrop_new(t) == [value |-> t, drops |-> FALSE]

\* The release counts after a local record built from the row at index went
\* out of scope.
discard(rel, t, index) ==
    IF t.drops THEN [rel EXCEPT ![index + 1] = @ + 1] ELSE rel

\* The field values a row reference reads at index: (self.f as *const T).read()
\* for every field.
read_fields(index) ==
    [f \in 1..Len(fields) |-> load(heap, elem(raw, f, index), fields[f].size)]

\* with_ref(f) on the row reference of index: every referenced field is read
\* into a local record, f is applied to it (here the identity on its fields)
\* and the local record goes out of scope.
with_ref(index) ==
    /\ pc = "storage" /\ status = "ok"
    /\ index < len
    /\ lastOp' = Op("with_ref", index, 0, 0)
    /\ call' = NoCall
    /\ moves' = << >> /\ moveSize' = 0
    /\ IF \A f \in 1..Len(fields) : valid(heap, elem(raw, f, index), fields[f].size) THEN
           LET t == ManuallyDrop_new(read_fields(index)) IN
           /\ status' = "ok"
           /\ got' = t.value
           /\ releases' = discard(releases, t, index)
       ELSE
           /\ status' = "ub"
           /\ got' = << >>
           /\ UNCHANGED releases
    /\ UNCHANGED << fields, planCap, plan, pc, raw, cap, len, heap, shadow >>

\* eq(self, other) on two row references: with_ref on self, inside it
\* with_ref on other, and the two local records are compared; the inner
\* local goes out of scope first.
eq(self, other) ==
    /\ pc = "storage" /\ status = "ok"
    /\ self < len /\ other < len
    /\ call' = NoCall
    /\ moves' = << >> /\ moveSize' = 0
    /\ got' = << >>
    /\ IF \A f \in 1..Len(fields), i \in { self, other } :
              valid(heap, elem(raw, f, i), fields[f].size) THEN
           LET me   == ManuallyDrop_new(read_fields(self))
               them == ManuallyDrop_new(read_fields(other))
           IN
           /\ status' = "ok"
           /\ lastOp' = Op("eq", self, other, IF me.value = them.value THEN 1 ELSE 0)
           /\ releases' = discard(discard(releases, them, other), me, self)
       ELSE
           /\ status' = "ub"
           /\ lastOp' = Op("eq", self, other, 0)
           /\ UNCHANGED releases
    /\ UNCHANGED << fields, planCap, plan, pc, raw, cap, len, heap, shadow >>

\* from_parts(ptr, capacity): the handle is rebuilt from a raw base address
\* and a capacity; here from the storage's own as_ptr() and capacity, and the
\* rebuilt handle replaces the original.
from_parts(ptr, capacity) ==
    /\ pc = "storage" /\ status = "ok"
    /\ cap >= 1 /\ capacity = cap /\ ptr = as_ptr(raw)
    /\ lastOp' = Op("from_parts", capacity, ptr, 0)
    /\ got' = << >>
    /\ call' = NoCall
    /\ moves' = << >> /\ moveSize' = 0
    /\ LET layout == layout_and_offsets(fields, capacity) IN
       IF ~layout.ok THEN
           /\ status' = "panic"
           /\ UNCHANGED raw
       ELSE
           /\ status' = "ok"
           /\ raw' = with_offsets(ptr, layout.offsets)
    /\ UNCHANGED << fields, planCap, plan, pc, cap, len, heap, shadow, releases >>

Next ==
    \/ \E capacity \in 1..MaxCap : alloc(capacity)
    \/ \E new_capacity \in 1..MaxCap : realloc_grow(cap, new_capacity, len)
    \/ \E new_capacity \in 1..MaxCap : realloc_shrink(cap, new_capacity, len)
    \/ dealloc(cap)
    \/ \E src \in 0..MaxCap, dst \in 0..MaxCap, count \in 0..MaxCap :
          copy(src, dst, count)
    \/ \E index \in 0..(MaxCap - 1), element \in Records : set(index, element)
    \/ \E index \in 0..(MaxCap - 1) : get(index)
    \/ from_parts(as_ptr(raw), cap)
    \/ \E index \in 0..(MaxCap - 1) : with_ref(index)
    \/ \E self \in 0..(MaxCap - 1), other \in 0..(MaxCap - 1) : eq(self, other)

Spec == Init /\ [][Next]_vars

(* ======================= properties of the layout ====================== *)

Planned == pc = "planned" /\ plan.ok

\* Byte range of field f's array in the plan: [lo, hi).
RangeLo(f) == field_offsets(plan)[f]
RangeHi(f) == field_offsets(plan)[f] + fields[f].size * planCap

\* Smallest multiple of a that is >= x.
RoundUp(x, a) == CHOOSE m \in x..(x + a - 1) : m % a = 0

\* C1: for every field list and capacity, the field arrays placed at the
\* planned offsets are pairwise non-overlapping and every field's offset is a
\* multiple of the field's alignment.
C1_DisjointAligned ==
    Planned =>
        /\ \A f \in 1..Len(fields) : RangeLo(f) % fields[f].align = 0
        /\ \A f, g \in 1..Len(fields) :
              f # g => \A b \in RangeLo(f)..(RangeHi(f) - 1) :
                          ~(RangeLo(g) <= b /\ b < RangeHi(g))

\* A plan in which padding was inserted between two non-empty arrays.
C1_Witness ==
    /\ Planned
    /\ Len(fields) = 3
    /\ planCap >= 2
    /\ \E f \in 2..3 : fields[f].size > 0 /\ RangeLo(f) > RangeHi(f - 1)
                       /\ fields[f - 1].size > 0

\* C2 as stated: the total size of every plan is a multiple of its alignment.
C2_SizeMultipleOfAlign ==
    Planned => plan.size % plan.align = 0

\* C2 amended: the total size is the final running size without trailing
\* padding, i.e. the end of the last field's array, and the total alignment
\* is the largest field alignment.
C2_SizeIsEndOfLastField ==
    Planned =>
        /\ plan.size = RangeHi(Len(fields))
        /\ \A f \in 1..Len(fields) : plan.align >= fields[f].align
        /\ \E f \in 1..Len(fields) : plan.align = fields[f].align

\* A plan whose size is not a multiple of its alignment.
C2_Witness ==
    /\ Planned
    /\ plan.size % plan.align # 0
    /\ plan.size = RangeHi(Len(fields))

\* C9: field 1 is at offset 0 and every later field starts at the end of the
\* previous field's array rounded up to its own alignment; the record
\* (4,4), (1,1), (8,8) at capacity 4 has offsets 0, 16, 24, size 56, align 8.
C9_TightPacking ==
    Planned =>
        /\ RangeLo(1) = 0
        /\ \A f \in 2..Len(fields) :
              RangeLo(f) = RoundUp(RangeHi(f - 1), fields[f].align)
        /\ (fields = << Desc(4, 4), Desc(1, 1), Desc(8, 8) >> /\ planCap = 4) =>
              /\ field_offsets(plan) = << 0, 16, 24 >>
              /\ plan.size = 56
              /\ plan.align = 8

\* The concrete three-field scenario has been planned.
C9_Witness ==
    /\ Planned
    /\ fields = << Desc(4, 4), Desc(1, 1), Desc(8, 8) >>
    /\ planCap = 4
    /\ field_offsets(plan) = << 0, 16, 24 >>

\* C10: the plan for capacity 0 is defined, has size 0 and puts every field
\* at offset 0.
C10_ZeroCapacity ==
    (pc = "planned" /\ planCap = 0) =>
        /\ plan.ok
        /\ plan.size = 0
        /\ \A f \in 1..Len(fields) : plan.offsets[f] = 0 /\ RangeLo(f) = 0

\* A capacity-0 plan of a three-field record with aligned fields.
C10_Witness ==
    /\ pc = "planned"
    /\ planCap = 0
    /\ Len(fields) = 3
    /\ fields[2].align > 1
    /\ plan.ok

(* ======================= properties of the storage ===================== *)

\* Element index of field f read through the handle r in the block h.
Read(r, h, f, index) == load(h, elem(r, f, index), fields[f].size)

\* The byte ranges [a, a+n) and [b, b+m) have no byte in common.
Disjoint(a, n, b, m) == n = 0 \/ m = 0 \/ a + n <= b \/ b + m <= a

\* C3: a successful grow leaves every element below length of every field
\* readable with its old value through the rebound bases; the fields are
\* relocated last field first, and no relocation writes over the elements of
\* a field relocated later.
C3_GrowPreserves ==
    [][ (lastOp'.op = "grow" /\ status' = "ok") =>
          /\ lastOp'.a = cap /\ lastOp'.b = cap' /\ cap >= 1 /\ cap' > cap
          /\ lastOp'.c <= cap
          /\ \A f \in 1..Len(fields) : \A j \in 0..(lastOp'.c - 1) :
                Read(raw', heap', f, j) = Read(raw, heap, f, j)
          /\ Len(moves') = Len(fields)
          /\ \A k \in 1..Len(moves') : moves'[k].field = Len(fields) + 1 - k
          /\ \A k, m \in 1..Len(moves') :
                k < m => Disjoint(moves'[k].dst, moves'[k].n, moves'[m].src, moves'[m].n)
      ]_vars

\* A grow of a three-field storage holding two different records, in which a
\* field moved up into a range overlapping its old one.
C3_Witness ==
    /\ lastOp.op = "grow" /\ status = "ok"
    /\ Len(fields) = 3
    /\ lastOp.c >= 2
    /\ shadow[1][1] # shadow[1][2]
    /\ \E k \in 1..Len(moves) :
          moves[k].src < moves[k].dst /\ moves[k].dst < moves[k].src + moves[k].n

\* C4: a successful shrink leaves every element below length of every field
\* readable with its old value through the rebound bases; the fields are
\* relocated first field first, and no relocation writes over the elements of
\* a later field not yet relocated nor over those of an earlier field already
\* relocated.
C4_ShrinkPreserves ==
    [][ (lastOp'.op = "shrink" /\ status' = "ok") =>
          /\ lastOp'.a = cap /\ lastOp'.b = cap' /\ cap' >= 1 /\ cap' < cap
          /\ lastOp'.c <= cap'
          /\ \A f \in 1..Len(fields) : \A j \in 0..(lastOp'.c - 1) :
                Read(raw', heap', f, j) = Read(raw, heap, f, j)
          /\ Len(moves') = Len(fields)
          /\ \A k \in 1..Len(moves') : moves'[k].field = k
          /\ \A k, m \in 1..Len(moves') :
                k < m =>
                   /\ Disjoint(moves'[k].dst, moves'[k].n, moves'[m].src, moves'[m].n)
                   /\ Disjoint(moves'[m].dst, moves'[m].n, moves'[k].dst, moves'[k].n)
      ]_vars

\* A shrink of a three-field storage holding two different records, in which
\* a field moved down into a range overlapping its old one.
C4_Witness ==
    /\ lastOp.op = "shrink" /\ status = "ok"
    /\ Len(fields) = 3
    /\ lastOp.c >= 2
    /\ shadow[1][1] # shadow[1][2]
    /\ \E k \in 1..Len(moves) :
          moves[k].dst < moves[k].src /\ moves[k].src < moves[k].dst + moves[k].n

\* C5: after any sequence of alloc, set, copy, grow and shrink the storage
\* reads like one independent array per field: every element below the
\* length holds the field value last written there.
C5_ReadsLikeArrays ==
    (status = "ok" /\ cap >= 1) =>
        /\ len <= cap
        /\ \A f \in 1..Len(fields) : \A j \in 0..(len - 1) :
              /\ Written(shadow[f][j + 1])
              /\ Read(raw, heap, f, j) = shadow[f][j + 1]

\* Two different records survived a shrink that moved the block.
C5_Witness ==
    /\ lastOp.op = "shrink" /\ status = "ok"
    /\ len >= 2
    /\ Len(fields) = 3
    /\ call.ret # call.ptr
    /\ Read(raw, heap, 3, 0) # Read(raw, heap, 3, 1)
    /\ Read(raw, heap, 3, 0) = shadow[3][1]

\* C6 as stated: dealloc of capacity 0 makes no call to the allocator.
C6_DeallocZeroNoCall ==
    (lastOp.op = "dealloc" /\ lastOp.a = 0) => call.op = "none"

\* C6 amended: dealloc always hands the head base and the layout of the
\* capacity to the allocator; for a capacity above 0 that is the block the
\* allocator holds, which is released; for capacity 0 it is a dangling
\* address with a layout of size 0, no block being held.
C6_DeallocAlwaysCalls ==
    [][ lastOp'.op = "dealloc" =>
          /\ call'.op = "dealloc"
          /\ call'.ptr = raw[1]
          /\ lastOp'.a = cap
          /\ IF cap = 0
             THEN /\ call'.size = 0
                  /\ call'.ptr = fields[1].align
                  /\ ~heap.live /\ ~heap'.live
             ELSE /\ heap.live /\ ~heap'.live
                  /\ call'.ptr = heap.addr
                  /\ call'.size = heap.size
                  /\ call'.align = heap.align
                  /\ status' = "ok"
      ]_vars

\* dealloc was called on an empty storage and reached the allocator.
C6_Witness ==
    /\ lastOp.op = "dealloc" /\ lastOp.a = 0
    /\ call.op = "dealloc" /\ call.size = 0
    /\ call.ptr = fields[1].align

\* C7: copy moves, in every field, the count elements at src to dst as one
\* overlap-safe move and leaves every other element unchanged.
C7_CopyIsMove ==
    [][ (lastOp'.op = "copy" /\ status' = "ok") =>
          \A f \in 1..Len(fields) : \A j \in 0..(cap - 1) :
              Read(raw', heap', f, j) =
                  IF lastOp'.b <= j /\ j < lastOp'.b + lastOp'.c
                  THEN Read(raw, heap, f, j - lastOp'.b + lastOp'.a)
                  ELSE Read(raw, heap, f, j)
      ]_vars

\* A copy between overlapping ranges whose elements differ.
C7_Witness ==
    /\ lastOp.op = "copy" /\ status = "ok"
    /\ lastOp.a < lastOp.b /\ lastOp.b < lastOp.a + lastOp.c
    /\ lastOp.c >= 2
    /\ Read(raw, heap, 1, lastOp.b) # Read(raw, heap, 1, lastOp.b + 1)

\* C8: a get that follows a set at the same index returns the record that
\* was set, each field value read from its own field's array at that index.
C8_SetGetRoundTrip ==
    [][ (lastOp.op = "set" /\ status = "ok" /\ lastOp'.op = "get"
         /\ lastOp'.a = lastOp.a) =>
          /\ status' = "ok"
          /\ got' = Record(lastOp.b)
          /\ \A f \in 1..Len(fields) :
                load(heap, raw[f] + lastOp.a * fields[f].size, fields[f].size)
                    = Record(lastOp.b)[f]
      ]_vars

\* A record was set at an index above 0 and read back.
C8_Witness ==
    /\ lastOp.op = "get" /\ status = "ok"
    /\ lastOp.a >= 1
    /\ Len(fields) = 3
    /\ got = Record(2)
    /\ Read(raw, heap, 1, 0) = Record(1)[1]

(* ===================== properties of failure and layout ================ *)

\* End of field f's array at capacity c, computed in unbounded integers.
RECURSIVE ExactEnd(_, _, _)
ExactEnd(fl, c, f) ==
    IF f = 0 THEN 0
    ELSE RoundUp(ExactEnd(fl, c, f - 1), fl[f].align) + fl[f].size * c

\* Largest alignment among fields 1..f.
RECURSIVE MaxAlign(_, _)
MaxAlign(fl, f) == IF f = 0 THEN 1 ELSE Max(MaxAlign(fl, f - 1), fl[f].align)

\* The layout of fl at capacity c is not representable: some running size,
\* rounded up to the running alignment, exceeds the size limit.
Overflows(fl, c) ==
    \E f \in 1..Len(fl) : ExactEnd(fl, c, f) > IsizeMax - (MaxAlign(fl, f) - 1)

\* C11: an alloc, grow or shrink whose layout is not representable fails
\* before any allocator call and before any element is moved, leaving block
\* and handle as they were; a representable layout is handed to the
\* allocator with its exact size, never wrapped or truncated.
C11_OverflowBeforeAllocator ==
    [][ (lastOp'.op \in { "alloc", "grow", "shrink" }) =>
          LET requested == IF lastOp'.op = "alloc" THEN lastOp'.a ELSE lastOp'.b IN
          IF Overflows(fields, requested) \/ Overflows(fields, cap)
          THEN /\ status' = "panic"
               /\ call'.op = "none"
               /\ moves' = << >> /\ moveSize' = 0
               /\ heap' = heap /\ raw' = raw /\ cap' = cap
          ELSE /\ call'.op # "none"
               /\ (IF lastOp'.op = "alloc" THEN call'.size ELSE call'.new_size)
                     = ExactEnd(fields, requested, Len(fields))
      ]_vars

\* A grow of a storage holding an element was refused for overflow.
C11_Witness ==
    /\ lastOp.op = "grow" /\ status = "panic"
    /\ Overflows(fields, lastOp.b)
    /\ call.op = "none"
    /\ len >= 1 /\ heap.live

\* C12: when the allocator returns null in alloc, grow or shrink, the
\* operation panics and the handle keeps the bases it had: no handle is built
\* on the null block, and a usable storage always points into the live block.
C12_NullNeverInstalled ==
    [][ (call'.op \in { "alloc", "realloc" } /\ call'.ret = Null) =>
          /\ lastOp'.op \in { "alloc", "grow", "shrink" }
          /\ status' = "panic"
          /\ raw' = raw /\ cap' = cap
          /\ raw'[1] # Null
          /\ (cap >= 1 => heap'.live /\ heap'.addr = raw'[1])
      ]_vars

\* The allocator denied the realloc of a grow of a storage holding data.
C12_Witness ==
    /\ lastOp.op = "grow"
    /\ call.op = "realloc" /\ call.ret = Null
    /\ status = "panic"
    /\ len >= 1 /\ raw[1] = heap.addr

\* ---------------------------------------------------------------------------
\* C13: using a borrowed row as a record value (with_ref, and the equality
\* built on it) reads each referenced field into a local record and discards
\* it without releasing its fields: the step releases no field of any row,
\* leaves the block and the handle as they were, with_ref hands out exactly
\* the stored record and eq compares the two stored records; every slot the
\* owner holds is unreleased while the block lives, and the owner's teardown
\* releases each of its slots exactly once.
C13_BorrowDoesNotRelease ==
    [][ /\ (lastOp'.op \in { "with_ref", "eq" } /\ status' = "ok") =>
            /\ releases' = releases
            /\ heap' = heap /\ raw' = raw /\ shadow' = shadow
            /\ \A j \in 1..len : releases'[j] = 0
            /\ lastOp'.op = "with_ref" =>
                   got' = [f \in 1..Len(fields) |-> shadow[f][lastOp'.a + 1]]
            /\ lastOp'.op = "eq" =>
                   (lastOp'.c = 1) <=>
                       (\A f \in 1..Len(fields) :
                            shadow[f][lastOp'.a + 1] = shadow[f][lastOp'.b + 1])
        /\ (lastOp'.op = "dealloc" /\ status' = "ok" /\ cap >= 1) =>
            /\ Len(releases') = len
            /\ \A j \in 1..len : releases'[j] = 1
      ]_vars

C13_Witness ==
    /\ lastOp.op = "eq" /\ status = "ok"
    /\ lastOp.a # lastOp.b /\ lastOp.c = 0
    /\ len >= 2 /\ heap.live
    /\ \A j \in 1..len : releases[j] = 0
    /\ \E f \in 1..Len(fields) : shadow[f][lastOp.a + 1] # shadow[f][lastOp.b + 1]

\* ---------------------------------------------------------------------------
\* C14: for an allocated storage of capacity c, as_ptr returns the start
\* address of the single allocation, and from_parts(as_ptr(), c) rebuilds a
\* handle whose per-field base addresses all equal those of the original.
C14_FromPartsRebuilds ==
    [][ (lastOp'.op = "from_parts" /\ heap.live) =>
            /\ status' = "ok"
            /\ lastOp'.b = heap.addr
            /\ raw' = raw
            /\ \A f \in 1..Len(fields) :
                   raw'[f] = heap.addr + RoundUp(ExactEnd(fields, cap, f - 1), fields[f].align)
      ]_vars

C14_Witness ==
    /\ lastOp.op = "from_parts" /\ status = "ok"
    /\ heap.live /\ lastOp.b = heap.addr
    /\ Len(fields) = 3 /\ cap >= 2
    /\ raw[1] < raw[2] /\ raw[2] < raw[3]

(* ----------------------- zero-field record types ------------------------ *)

\* fields_struct's match on the first field: a record type with a head field
\* gets the storage above, one without any field goes to zst_struct.
has_head(fl) == Len(fl) >= 1

ZstFieldLists == { fl \in FieldListsOfLen(0) : ~has_head(fl) }

\* An allocator call made on behalf of a zero-field storage.
zst_call_made(name) == [NoCall EXCEPT !.op = name]

\* The allocator call a zero-field storage makes for an operation: none.
zst_call(name) == NoCall

InitZst ==
    /\ fields \in ZstFieldLists
    /\ planCap = 0
    /\ plan = PlanErr(0)
    /\ pc = "zst"
    /\ raw = dangling
    /\ cap = 0
    /\ len = 0
    /\ heap = NoBlock
    /\ call = NoCall
    /\ moves = << >>
    /\ status = "ok"
    /\ lastOp = NoOp
    /\ got = << >>
    /\ shadow = << >>
    /\ releases = << >>
    /\ moveSize = 0

\* What every operation of a zero-field storage leaves alone.
zst_frame ==
    /\ got' = << >>
    /\ UNCHANGED << fields, planCap, plan, pc, raw, cap, heap, moves, status,
                    shadow, releases, moveSize >>

zst_alloc(capacity) ==
    /\ pc = "zst"
    /\ lastOp' = Op("alloc", capacity, 0, 0)
    /\ call' = zst_call("alloc")
    /\ UNCHANGED len
    /\ zst_frame

zst_realloc_grow(old_capacity, new_capacity, length) ==
    /\ pc = "zst"
    /\ new_capacity > old_capacity
    /\ lastOp' = Op("grow", old_capacity, new_capacity, length)
    /\ call' = zst_call("realloc")
    /\ UNCHANGED len
    /\ zst_frame

zst_realloc_shrink(old_capacity, new_capacity, length) ==
    /\ pc = "zst"
    /\ new_capacity < old_capacity
    /\ lastOp' = Op("shrink", old_capacity, new_capacity, length)
    /\ call' = zst_call("realloc")
    /\ UNCHANGED len
    /\ zst_frame

\* The owner is destroyed: its length counter goes with it.
zst_dealloc(old_capacity) ==
    /\ pc = "zst"
    /\ lastOp' = Op("dealloc", old_capacity, 0, 0)
    /\ call' = zst_call("dealloc")
    /\ len' = 0
    /\ zst_frame

\* The owner stores a record at index: nothing is written, the owner counts.
zst_set(index) ==
    /\ pc = "zst"
    /\ index <= len /\ index < MaxLenZ
    /\ lastOp' = Op("set", index, 0, 0)
    /\ call' = zst_call("set")
    /\ len' = Max(len, index + 1)
    /\ zst_frame

\* The owner reads the record at index: the record without fields.
zst_get(index) ==
    /\ pc = "zst"
    /\ index < len
    /\ lastOp' = Op("get", index, 0, 0)
    /\ call' = zst_call("get")
    /\ UNCHANGED len
    /\ zst_frame

NextZst ==
    \/ \E capacity \in 0..MaxCap : zst_alloc(capacity)
    \/ \E old_capacity \in 0..MaxCap, new_capacity \in 0..MaxCap :
          zst_realloc_grow(old_capacity, new_capacity, len)
    \/ \E old_capacity \in 0..MaxCap, new_capacity \in 0..MaxCap :
          zst_realloc_shrink(old_capacity, new_capacity, len)
    \/ \E old_capacity \in 0..MaxCap : zst_dealloc(old_capacity)
    \/ \E index \in 0..(MaxLenZ - 1) : zst_set(index)
    \/ \E index \in 0..(MaxLenZ - 1) : zst_get(index)

SpecZst == InitZst /\ [][NextZst]_vars

\* ---------------------------------------------------------------------------
\* C15: for a record type with zero fields no allocation is ever made;
\* allocate, grow, shrink and deallocate are no-ops (no allocator call, no
\* block, no base addresses, no bytes moved), and whatever operations ran,
\* the only state that changes is the length counter.
C15_ZstOnlyLength ==
    /\ ~has_head(fields)
    /\ heap = NoBlock /\ call = NoCall
    /\ raw = << >> /\ cap = 0
    /\ moves = << >> /\ moveSize = 0
    /\ shadow = << >> /\ releases = << >>
    /\ status = "ok"
    /\ len \in 0..MaxLenZ

C15_Witness ==
    /\ pc = "zst" /\ lastOp.op = "grow"
    /\ lastOp.a = 1 /\ lastOp.b = MaxCap /\ lastOp.c = 2 /\ len = 2
    /\ heap = NoBlock

\* ---------------------------------------------------------------------------
\* C16: in every allocated state reached by alloc followed by any grows and
\* shrinks, the base address of every field is the block's current start
\* address plus the field's offset in the layout plan of the current
\* capacity; the first field's base is the block's start.
C16_BaseIsStartPlusOffset ==
    (pc = "storage" /\ heap.live /\ status # "ub") =>
        /\ cap >= 1
        /\ raw[1] = heap.addr
        /\ \A f \in 1..Len(fields) :
               raw[f] - heap.addr =
                   IF f = 1 THEN 0
                   ELSE RoundUp(ExactEnd(fields, cap, f - 1), fields[f].align)

C16_Witness ==
    /\ lastOp.op = "shrink" /\ status = "ok"
    /\ heap.live /\ heap.addr # call.ptr
    /\ Len(fields) = 3 /\ cap = 2 /\ len = 2
    /\ raw[2] > raw[1] /\ raw[3] > raw[2]

(* =================== further properties of the layout ================== *)

\* ---------------------------------------------------------------------------
\* C17: field offsets are monotone in capacity: for every field list, every
\* field and all capacities c1 < c2, the field's offset at c2 is at least its
\* offset at c1 (growing never decreases an offset, shrinking never increases
\* one).
C17_OffsetsMonotone ==
    Planned =>
        \A c1 \in 0..(planCap - 1) :
            LET smaller == layout_and_offsets(fields, c1) IN
            /\ smaller.ok
            /\ \A f \in 1..Len(fields) : field_offsets(smaller)[f] <= RangeLo(f)

\* A plan in which an offset grew strictly from one capacity to the next and
\* another stayed the same.
C17_Witness ==
    /\ Planned /\ planCap >= 2 /\ Len(fields) = 3
    /\ LET smaller == layout_and_offsets(fields, planCap - 1) IN
       /\ smaller.ok
       /\ field_offsets(smaller)[2] = RangeLo(2)
       /\ field_offsets(smaller)[3] < RangeLo(3)

\* ---------------------------------------------------------------------------
\* C20: the allocation is large enough for every field: for every field list,
\* capacity and field, offset + size * capacity <= total size, so every index
\* below the capacity of every field addresses bytes inside the block.
C20_FieldsFitInBlock ==
    Planned =>
        \A f \in 1..Len(fields) :
            /\ RangeHi(f) <= plan.size
            /\ \A index \in 0..(planCap - 1) :
                   /\ 0 <= RangeLo(f) + index * fields[f].size
                   /\ RangeLo(f) + (index + 1) * fields[f].size <= plan.size

\* A plan with padding in front of the last field, whose array ends at the
\* total size.
C20_Witness ==
    /\ Planned /\ planCap >= 1 /\ Len(fields) = 3
    /\ RangeLo(3) > RangeHi(2)
    /\ fields[3].size >= 1
    /\ RangeHi(3) = plan.size

(* =================== further properties of the storage ================= *)

\* Every byte a logged ptr::copy reads or writes lies in [base, base + size).
MovesInside(ms, base, size) ==
    \A k \in 1..Len(ms) :
        ms[k].n > 0 =>
            /\ base <= ms[k].src /\ ms[k].src + ms[k].n <= base + size
            /\ base <= ms[k].dst /\ ms[k].dst + ms[k].n <= base + size

\* ---------------------------------------------------------------------------
\* C18: resize and relocation are ordered so that every element a relocation
\* reads or writes lies inside the block at the size it has at that moment:
\* grow resizes the block to the new total size before it moves any field;
\* shrink moves the first length elements of every field while the block has
\* its old, larger size and truncates afterwards, and then no moved element
\* lies beyond the new total size.
C18_ResizeOrder ==
    [][ /\ (lastOp'.op = "grow" /\ moves' # << >>) =>
            /\ status' = "ok"
            /\ call'.op = "realloc" /\ call'.new_size > call'.size
            /\ moveSize' = call'.new_size /\ moveSize' = heap'.size
            /\ MovesInside(moves', call'.ret, moveSize')
        /\ (lastOp'.op = "shrink" /\ moves' # << >>) =>
            /\ status' # "ub"
            /\ call'.op = "realloc" /\ call'.new_size <= call'.size
            /\ moveSize' = call'.size /\ moveSize' = heap.size
            /\ MovesInside(moves', call'.ptr, moveSize')
            /\ \A k \in 1..Len(moves') :
                   moves'[k].dst + moves'[k].n <= call'.ptr + call'.new_size
            /\ status' = "ok" => heap'.size = call'.new_size
      ]_vars

\* A shrink that moved elements lying beyond the new total size.
C18_Witness ==
    /\ lastOp.op = "shrink" /\ status = "ok" /\ len >= 1
    /\ call.new_size < call.size
    /\ \E k \in 1..Len(moves) :
           /\ moves[k].n > 0
           /\ moves[k].src + moves[k].n > call.ptr + call.new_size
           /\ moves[k].dst + moves[k].n <= call.ptr + call.new_size

\* ---------------------------------------------------------------------------
\* C19: paired layouts: with the current capacity passed as old_capacity, the
\* old layout handed to realloc by every grow and shrink, and the layout
\* handed to dealloc, have the size and alignment with which the block was
\* last allocated or resized, and the pointer is the block's address; every
\* block is allocated or resized to the plan of the new capacity, so it is
\* released with the plan of its current capacity.
C19_PairedLayouts ==
    [][ /\ (call'.op \in { "realloc", "dealloc" } /\ cap >= 1) =>
            /\ heap.live
            /\ call'.ptr = heap.addr
            /\ call'.size = heap.size
            /\ call'.align = heap.align
            /\ call'.size = ExactEnd(fields, cap, Len(fields))
            /\ call'.align = MaxAlign(fields, Len(fields))
            /\ status' # "ub"
            /\ call'.op = "dealloc" => ~heap'.live
        /\ (call'.op \in { "alloc", "realloc" } /\ status' = "ok") =>
            /\ heap'.live
            /\ heap'.addr = call'.ret
            /\ heap'.size = ExactEnd(fields, cap', Len(fields))
            /\ heap'.align = MaxAlign(fields, Len(fields))
      ]_vars

\* A block that was resized is released with the layout of its capacity.
C19_Witness ==
    /\ lastOp.op = "dealloc" /\ status = "ok"
    /\ call.op = "dealloc" /\ ~heap.live
    /\ Len(fields) = 3 /\ lastOp.a = 2
    /\ call.size = ExactEnd(fields, 2, 3) /\ call.size > 0
    /\ Len(releases) < lastOp.a

\* ---------------------------------------------------------------------------
\* C21: failure leaves the storage as it was: when the allocator denies the
\* resize inside grow or inside shrink, the handle still holds the base
\* addresses it had before the call, and every element below length of every
\* field still reads through those bases as it did before the call.
C21_FailureLeavesStorage ==
    [][ (/\ lastOp'.op \in { "grow", "shrink" }
         /\ call'.op = "realloc" /\ call'.ret = Null /\ status' = "panic") =>
            /\ raw' = raw
            /\ \A f \in 1..Len(fields) : \A index \in 0..(lastOp'.c - 1) :
                   load(heap', elem(raw', f, index), fields[f].size)
                       = load(heap, elem(raw, f, index), fields[f].size)
      ]_vars

====
